---- MODULE Spec2Model ----
(***************************************************************************)
(* A model of the traffic light detector node of CarND-Capstone,           *)
(* ros/src/tl_detector/tl_detector.py: the latest-value caches written by  *)
(* pose_cb, waypoints_cb and traffic_cb, the light selector                *)
(* get_closest_light, the stop waypoint lookup get_closest_waypoint,       *)
(* process_traffic_lights and the debounce latch at the end of image_cb.   *)
(*                                                                         *)
(* Distances are kept as their squares: every use the code makes of a      *)
(* distance is a comparison, math.sqrt is strictly increasing, and the     *)
(* coordinates of the model are integers, so comparing squares decides     *)
(* exactly what the code's comparisons of square roots decide.  Angles are *)
(* integers in microradians.                                               *)
(***************************************************************************)
EXTENDS Integers, Sequences, FiniteSets, TLC

VARIABLES
    pose,           \* self.pose: None or the last PoseStamped
    waypoints,      \* self.waypoints: None or the last Lane
    lights,         \* self.lights: the last TrafficLightArray.lights
    camera_image,   \* self.camera_image: None or the last Image
    has_image,      \* self.has_image (first assigned by image_cb)
    state,          \* self.state: the last observed light state
    last_state,     \* self.last_state: the committed light state
    last_wp,        \* self.last_wp: the committed stop waypoint
    state_count,    \* self.state_count
    gt_builer,      \* self.gt_builer: the GroundTruthBuilder's counters
    pc,             \* where the image_cb thread stands: "idle" or "selected"
    loc,            \* image_cb's locals between line 109 and line 115
    car_position,   \* process_traffic_lights' local: <<>> while unbound
    log,            \* history: one record per finished camera frame
    e2e_run,        \* history: every frame so far ran in the end-to-end scenario
    near_only,      \* history: the last frame saw only lights closer than MIN
    twin            \* second runs of the node on the same events, one for each
                    \* way of reporting other ground-truth states for the lights

vars == <<pose, waypoints, lights, camera_image, has_image, state, last_state,
          last_wp, state_count, gt_builer, pc, loc, car_position, log,
          e2e_run, near_only, twin>>

----------------------------------------------------------------------------
(* Program constants *)

STATE_COUNT_THRESHOLD == 3
MAX_LIGHTS_DISTANCE == 300
MIN_LIGHTS_DISTANCE == 20

\* styx_msgs/TrafficLight: the light state enumeration
RED == 0
YELLOW == 1
GREEN == 2
UNKNOWN == 4

\* math.pi in microradians
PI == 3141593

\* the value published when there is no stop waypoint
NO_WP == -1

None == [none |-> TRUE]

States == {RED, YELLOW, GREEN, UNKNOWN}

----------------------------------------------------------------------------
(* Bounds of the model *)

\* camera frames processed in a run of the whole node
MaxFrames == 4
\* observations fed to the debounce latch
MaxObs == 7
\* length of the light lists handed to the selector
MaxLights == 3

----------------------------------------------------------------------------
(* Messages *)

Point(px, py) == [x |-> px, y |-> py]

\* geometry_msgs/Quaternion of a rotation about z by 0 and by pi
Q0 == [x |-> 0, y |-> 0, z |-> 0, w |-> 1]
QPI == [x |-> 0, y |-> 0, z |-> 1, w |-> 0]

PoseMsg(px, py, q) == [position |-> Point(px, py), orientation |-> q]

Light(px, py, s) == [position |-> Point(px, py), state |-> s]

Lane(pts) == [waypoints |-> pts]

SeqsUpTo(S, n) == UNION {[1..k -> S] : k \in 0..n}

----------------------------------------------------------------------------
(* GroundTruthBuilder *)

GroundTruthBuilder == [red_count |-> 0, yellow_count |-> 0, green_count |-> 0]

\* save_image(light, image): the counter of the light's state goes up by one
\* and the image is written under it; any other state writes nothing.
save_image(gt, light_state) ==
    IF light_state = RED THEN [gt EXCEPT !.red_count = @ + 1]
    ELSE IF light_state = YELLOW THEN [gt EXCEPT !.yellow_count = @ + 1]
    ELSE IF light_state = GREEN THEN [gt EXCEPT !.green_count = @ + 1]
    ELSE gt

----------------------------------------------------------------------------
(* get_closest_light *)

\* tf.transformations.euler_from_quaternion(quaternion)[2], in microradians,
\* on the orientations of the model
yaw_of(q) ==
    CASE q = Q0 -> 0
      [] q = QPI -> PI

\* math.atan2(y, x) in microradians, rounded to the nearest, on the offsets
\* between the vehicle and light positions of the model
atan2(y, x) ==
    CASE y = 0 /\ x >= 0 -> 0
      [] y = 0 /\ x < 0 -> PI
      [] y = 36 /\ x = 100 -> 345556
      [] y = -36 /\ x = 100 -> -345556
      [] y = 37 /\ x = 100 -> 354380
      [] y = 36 /\ x = 90 -> 380506
      [] y = -36 /\ x = 90 -> -380506
      [] y = 37 /\ x = 90 -> 390048
      [] y = 80 /\ x = 60 -> 927295
      [] y = 80 /\ x = 50 -> 1012197
      [] y = -10 /\ x = -100 -> -3041924
      [] y = -10 /\ x = -110 -> -3050933

abs(a) == IF a < 0 THEN 0 - a ELSE a

\* dist(p1, p2) squared
dist2(p1, p2) == (p2.x - p1.x) * (p2.x - p1.x) + (p2.y - p1.y) * (p2.y - p1.y)

\* line 170 with the comparison turned round: the nearer light is skipped
farther_inverted(distance, best_distance) == distance < best_distance

\* line 170 with >= for >: a light as far as the best one is skipped too
farther_or_equal(distance, best_distance) == distance >= best_distance

\* line 170: the light is farther than the best one so far
farther(distance, best_distance) == distance > best_distance

\* line 173 with >= for >: a light at MIN_LIGHTS_DISTANCE is in range
in_range_closed(distance) ==
    /\ distance < MAX_LIGHTS_DISTANCE * MAX_LIGHTS_DISTANCE
    /\ distance >= MIN_LIGHTS_DISTANCE * MIN_LIGHTS_DISTANCE

\* line 173 without its second test: every light nearer than MAX is in range
in_range_no_min(distance) == distance < MAX_LIGHTS_DISTANCE * MAX_LIGHTS_DISTANCE

\* line 173: (distance < MAX_LIGHTS_DISTANCE) and (distance > MIN_LIGHTS_DISTANCE)
in_range(distance) ==
    /\ distance < MAX_LIGHTS_DISTANCE * MAX_LIGHTS_DISTANCE
    /\ distance > MIN_LIGHTS_DISTANCE * MIN_LIGHTS_DISTANCE

\* lines 174-177: angle = abs(yaw - heading)
angle_to(p, yaw, l) == abs(yaw - atan2(l.position.y - p.position.y, l.position.x - p.position.x))

\* line 179: angle < math.pi / 9
in_cone(angle) == angle * 9 < PI

\* lines 162-183: the scan.  best_distance is -1 while it is None; result is
\* the index in ls of the light kept so far, 0 while it is None.
RECURSIVE scan_lights(_, _, _, _, _)
scan_lights(p, ls, i, best_distance, result) ==
    IF i > Len(ls) THEN result
    ELSE LET distance == dist2(p.position, ls[i].position) IN
         IF best_distance # -1 /\ farther(distance, best_distance)
         THEN scan_lights(p, ls, i + 1, best_distance, result)
         ELSE IF in_range(distance) /\ in_cone(angle_to(p, yaw_of(p.orientation), ls[i]))
              THEN scan_lights(p, ls, i + 1, distance, i)
              ELSE scan_lights(p, ls, i + 1, best_distance, result)

\* the lights argument when it is None: a list holding None alone, which no
\* list of lights equals (self.lights is a list from __init__ on, so only
\* the selector's own inputs hold it)
AbsentLights == <<None>>

\* lines 145-183 with a missing pose taken for a default pose at the origin
closest_light_index_default_pose(p, ls) ==
    IF ls = AbsentLights THEN 0
    ELSE scan_lights(IF p = None THEN PoseMsg(0, 0, Q0) ELSE p, ls, 1, -1, 0)

\* the index of the light get_closest_light returns, 0 when it returns None:
\* lines 145-149 return None for a pose or a light list that is None
closest_light_index(p, ls) ==
    IF p = None THEN 0
    ELSE IF ls = AbsentLights THEN 0
    ELSE scan_lights(p, ls, 1, -1, 0)

get_closest_light(p, ls) ==
    LET i == closest_light_index(p, ls) IN IF i = 0 THEN None ELSE ls[i]

----------------------------------------------------------------------------
(* get_closest_waypoint, get_light_state, process_traffic_lights *)

\* lines 186-197: the body is "return 0"
get_closest_waypoint(p) == 0

\* lines 199-216: False (which Python compares equal to 0) while no image has
\* arrived, otherwise what the classifier says of the image
get_light_state(classified) == IF ~has_image THEN 0 ELSE classified

\* lines 227-240 with the light found: the state is what get_light_state says
process_traffic_lights_classifying(classified) ==
    [raised |-> FALSE, light_wp |-> NO_WP, state |-> get_light_state(classified)]

\* lines 227-240: the local light is None when it is tested, so the branch
\* that classifies is never taken; there light_wp is a name never bound
process_traffic_lights(classified) ==
    LET light == None IN
    IF light # None
    THEN [raised |-> TRUE, light_wp |-> NO_WP, state |-> get_light_state(classified)]
    ELSE [raised |-> FALSE, light_wp |-> NO_WP, state |-> UNKNOWN]

----------------------------------------------------------------------------
(* The debounce latch of image_cb, lines 123-133 *)

\* line 123 never true: a new state is taken for the old one
changed_never(st) == FALSE

\* line 123: the observed state differs from the one observed before
changed(st) == state # st

\* line 126 with 1 for the threshold: the second frame in a row commits
stable_at_once(count) == count >= 1

\* line 126: the observed state has been seen often enough
stable(count) == count >= STATE_COUNT_THRESHOLD

\* line 128 without the test of the state
stop_wp_any(light_wp, st) == light_wp

\* line 128: light_wp if state == TrafficLight.RED else -1
stop_wp(light_wp, st) == IF st = RED THEN light_wp ELSE NO_WP

\* line 133 with the count held at the threshold once it is reached
next_count_clamped(count) ==
    IF count >= STATE_COUNT_THRESHOLD THEN STATE_COUNT_THRESHOLD ELSE count + 1

\* line 133: self.state_count += 1
next_count(count) == count + 1

\* One record of the history: what the frame observed, whether it committed
\* and what it published on /traffic_waypoint
Frame(st, light_wp, commit, pub) ==
    [state |-> st, light_wp |-> light_wp, commit |-> commit, pub |-> pub]

\* lines 123-133 with (light_wp, state) as line 115 bound them
debounce(light_wp, st) ==
    IF changed(st)
    THEN /\ state_count' = next_count(0)
         /\ state' = st
         /\ UNCHANGED <<last_state, last_wp>>
         /\ log' = Append(log, Frame(st, light_wp, FALSE, <<>>))
    ELSE IF stable(state_count)
    THEN /\ last_state' = state
         /\ last_wp' = stop_wp(light_wp, st)
         /\ state_count' = next_count(state_count)
         /\ UNCHANGED state
         /\ log' = Append(log, Frame(st, light_wp, TRUE, <<stop_wp(light_wp, st)>>))
    ELSE /\ state_count' = next_count(state_count)
         /\ UNCHANGED <<state, last_state, last_wp>>
         /\ log' = Append(log, Frame(st, light_wp, FALSE, <<last_wp>>))

\* everything published on /traffic_waypoint so far, in order
RECURSIVE published_upto(_)
published_upto(n) == IF n = 0 THEN <<>> ELSE published_upto(n - 1) \o log[n].pub

published == published_upto(Len(log))

----------------------------------------------------------------------------
(* Inputs *)

Origin == PoseMsg(0, 0, Q0)
Poses == {Origin, PoseMsg(10, 0, Q0)}

\* a route whose waypoint of index 42 (counted from 0) lies at (90, 0)
Route42 == [i \in 1..44 |-> Point(6 + 2 * (i - 1), 0)]
ShortRoute == <<Point(0, 0), Point(10, 0)>>
Routes == {Lane(Route42), Lane(ShortRoute)}

\* self.config['stop_line_positions'], read at line 230
stop_line_positions == <<Point(90, 0)>>

RedAhead == Light(100, 0, RED)
LightLists ==
    { <<>>, <<RedAhead>>, <<Light(100, 0, GREEN)>>, <<Light(10, 0, RED)>>,
      <<Light(10, 0, YELLOW)>>, <<Light(10, 0, RED), RedAhead>>,
      <<Light(100, 0, UNKNOWN)>> }

Images == {"frame"}

\* the inputs of the selector: poses at two positions and two headings, and
\* lights in range and out of it, inside the cone and outside, some at the
\* same distance, some on the far side of the +-pi cut
SelPoses == {None, Origin, PoseMsg(0, 0, QPI), PoseMsg(10, 0, Q0)}
SelLights ==
    { Light(c[1], c[2], RED) :
        c \in { <<100, 0>>, <<50, 0>>, <<10, 0>>, <<20, 0>>, <<300, 0>>,
                <<100, 36>>, <<100, -36>>, <<100, 37>>, <<60, 80>>,
                <<-100, 0>>, <<-100, -10>> } }

\* what process_traffic_lights can hand to the latch once a light is found
Observations ==
    { [state |-> RED, light_wp |-> 42], [state |-> RED, light_wp |-> 7],
      [state |-> GREEN, light_wp |-> 42], [state |-> YELLOW, light_wp |-> 42],
      [state |-> UNKNOWN, light_wp |-> NO_WP] }

----------------------------------------------------------------------------
(* The second runs.  A run of twin is fed the events of the first run, with *)
(* the state field of the light at place i of every light list replaced by  *)
(* g[i]; it keeps its own latch fields, its own published sequence and its  *)
(* own GroundTruthBuilder.                                                  *)

LongestList ==
    CHOOSE n \in {Len(ls) : ls \in LightLists} : \A ls \in LightLists : Len(ls) <= n

Regts == [1..LongestList -> States]

\* the light list ls as the second run g receives it
Regt(ls, g) ==
    IF ls = AbsentLights THEN ls
    ELSE [i \in 1..Len(ls) |->
            IF i \in DOMAIN g THEN [ls[i] EXCEPT !.state = g[i]] ELSE ls[i]]

\* the fields of a second run after __init__, lines 80-85
TwinInit ==
    [state |-> UNKNOWN, last_state |-> UNKNOWN, last_wp |-> NO_WP, state_count |-> 0,
     published |-> <<>>, gt |-> GroundTruthBuilder]

\* lines 123-133 on the fields d of a second run
latch_on(d, light_wp, st) ==
    IF d.state # st
    THEN [d EXCEPT !.state_count = next_count(0), !.state = st]
    ELSE IF stable(d.state_count)
    THEN [d EXCEPT !.last_state = d.state,
                   !.last_wp = stop_wp(light_wp, st),
                   !.published = Append(@, stop_wp(light_wp, st)),
                   !.state_count = next_count(@)]
    ELSE [d EXCEPT !.published = Append(@, d.last_wp),
                   !.state_count = next_count(@)]

\* line 115 handing the selected light's reported state to the latch
observation_ground_truth(light, classified) ==
    IF light # None
    THEN [raised |-> FALSE, light_wp |-> NO_WP, state |-> light.state]
    ELSE process_traffic_lights(classified)

\* line 115: light_wp, state = self.process_traffic_lights(); the light
\* selected at line 109 is not handed on
observation(light, classified) == process_traffic_lights(classified)

----------------------------------------------------------------------------
(* The node.  rospy runs the callbacks of each subscription on a thread of  *)
(* its own, so pose_cb, waypoints_cb and traffic_cb may run between        *)
(* image_cb's read of the caches at line 109 and the reads that            *)
(* process_traffic_lights makes at lines 231-239: image_cb is two steps,   *)
(* image_cb_select and image_cb_process, with pc between them.             *)

NoLocals == [pose |-> None, lights |-> <<>>, light |-> None]

\* TLDetector.__init__, lines 53-56 and 80-85
Init ==
    /\ pose = None
    /\ waypoints = None
    /\ lights = <<>>
    /\ camera_image = None
    /\ has_image = FALSE
    /\ state = UNKNOWN
    /\ last_state = UNKNOWN
    /\ last_wp = NO_WP
    /\ state_count = 0
    /\ gt_builer = GroundTruthBuilder
    /\ pc = "idle"
    /\ loc = NoLocals
    /\ car_position = <<>>
    /\ log = <<>>
    /\ e2e_run = TRUE
    /\ near_only = FALSE
    /\ twin = [g \in Regts |-> TwinInit]

pose_cb(msg) ==
    /\ pose' = msg
    /\ UNCHANGED <<waypoints, lights, camera_image, has_image, state, last_state,
                   last_wp, state_count, gt_builer, pc, loc, car_position, log,
                   e2e_run, near_only, twin>>

waypoints_cb(msg) ==
    /\ waypoints' = msg
    /\ UNCHANGED <<pose, lights, camera_image, has_image, state, last_state,
                   last_wp, state_count, gt_builer, pc, loc, car_position, log,
                   e2e_run, near_only, twin>>

traffic_cb(msg) ==
    /\ lights' = msg
    /\ UNCHANGED <<pose, waypoints, camera_image, has_image, state, last_state,
                   last_wp, state_count, gt_builer, pc, loc, car_position, log,
                   e2e_run, near_only, twin>>

\* image_cb, lines 106-113: the frame is cached, the closest light is
\* selected from the cached pose and lights and handed to save_image
image_cb_select(msg) ==
    /\ pc = "idle"
    /\ Len(log) < MaxFrames
    /\ has_image' = TRUE
    /\ camera_image' = msg
    /\ LET light == get_closest_light(pose, lights) IN
         /\ loc' = [pose |-> pose, lights |-> lights, light |-> light]
         /\ gt_builer' = IF light # None THEN save_image(gt_builer, light.state)
                         ELSE gt_builer
    /\ twin' = [g \in Regts |->
                  LET light == get_closest_light(pose, Regt(lights, g)) IN
                  IF light # None
                  THEN [twin[g] EXCEPT !.gt = save_image(@, light.state)]
                  ELSE twin[g]]
    /\ pc' = "selected"
    /\ UNCHANGED <<pose, waypoints, lights, state, last_state, last_wp,
                   state_count, car_position, log, e2e_run, near_only>>

\* the frame runs in the end-to-end scenario: the vehicle at the origin
\* heading along x, one red light at (100, 0), the route loaded with its
\* waypoint 42 on the stop line, and the classifier answering RED
E2EFrame(classified) ==
    /\ pose = Origin /\ loc.pose = Origin
    /\ lights = <<RedAhead>> /\ loc.lights = <<RedAhead>>
    /\ waypoints = Lane(Route42)
    /\ Route42[42 + 1] = stop_line_positions[1]
    /\ classified = RED

\* every light of the list is closer to the vehicle than MIN_LIGHTS_DISTANCE
NearOnly(p, ls) ==
    /\ p # None
    /\ ls # <<>>
    /\ \A i \in 1..Len(ls) :
          dist2(p.position, ls[i].position) < MIN_LIGHTS_DISTANCE * MIN_LIGHTS_DISTANCE

\* image_cb, lines 115-133: process_traffic_lights (which looks up the
\* vehicle's waypoint when there is a pose and drops the cached route), then
\* the latch
image_cb_process(classified) ==
    /\ pc = "selected"
    /\ LET r == observation(loc.light, classified) IN
         /\ car_position' = IF pose # None THEN <<get_closest_waypoint(pose)>>
                            ELSE <<>>
         /\ IF r.raised
            THEN UNCHANGED <<waypoints, state, last_state, last_wp, state_count, log>>
            ELSE /\ waypoints' = None
                 /\ debounce(r.light_wp, r.state)
    /\ twin' = [g \in Regts |->
                  LET r == observation(get_closest_light(loc.pose, Regt(loc.lights, g)),
                                       classified)
                  IN IF r.raised THEN twin[g] ELSE latch_on(twin[g], r.light_wp, r.state)]
    /\ e2e_run' = (e2e_run /\ E2EFrame(classified))
    /\ near_only' = (NearOnly(loc.pose, loc.lights) /\ NearOnly(pose, lights))
    /\ pc' = "idle"
    /\ loc' = NoLocals
    /\ UNCHANGED <<pose, lights, camera_image, has_image, gt_builer>>

Next ==
    \/ \E msg \in Poses : pose_cb(msg)
    \/ \E msg \in Routes : waypoints_cb(msg)
    \/ \E msg \in LightLists : traffic_cb(msg)
    \/ \E msg \in Images : image_cb_select(msg)
    \/ \E classified \in States : image_cb_process(classified)

Spec == Init /\ [][Next]_vars

----------------------------------------------------------------------------
(* The latch alone, fed every observation *)

latch_step(obs) ==
    /\ Len(log) < MaxObs
    /\ debounce(obs.light_wp, obs.state)
    /\ twin' = [g \in Regts |-> latch_on(twin[g], obs.light_wp, obs.state)]
    /\ UNCHANGED <<pose, waypoints, lights, camera_image, has_image, gt_builer,
                   pc, loc, car_position, e2e_run, near_only>>

NextLatch == \E obs \in Observations : latch_step(obs)

LatchSpec == Init /\ [][NextLatch]_vars

----------------------------------------------------------------------------
(* The selector alone, on every pose and light list of its inputs *)

InitSelect ==
    /\ pose \in SelPoses
    /\ waypoints = None
    /\ lights \in SeqsUpTo(SelLights, MaxLights) \cup {AbsentLights}
    /\ camera_image = None
    /\ has_image = FALSE
    /\ state = UNKNOWN
    /\ last_state = UNKNOWN
    /\ last_wp = NO_WP
    /\ state_count = 0
    /\ gt_builer = GroundTruthBuilder
    /\ pc = "idle"
    /\ loc = NoLocals
    /\ car_position = <<>>
    /\ log = <<>>
    /\ e2e_run = TRUE
    /\ near_only = FALSE
    /\ twin = [g \in Regts |-> TwinInit]

NextSelect == \E msg \in Images : image_cb_select(msg)

SelectSpec == InitSelect /\ [][NextSelect]_vars

----------------------------------------------------------------------------
(* Claims about the debounce latch, under LatchSpec *)

LastFrame == log[Len(log)]

C1_Sequence == <<RED, RED, GREEN, RED, RED, RED>>

\* C1: from the initial state, the observations RED, RED, GREEN, RED, RED,
\* RED, each with stop waypoint 42, make the first five frames publish -1
\* and the sixth publish 42, the sixth being the only frame that commits.
C1_DebounceTiming ==
    (/\ Len(log) = 6
     /\ \A i \in 1..6 : log[i].state = C1_Sequence[i] /\ log[i].light_wp = 42)
    => /\ \A i \in 1..5 : log[i].pub = <<NO_WP>> /\ ~log[i].commit
       /\ log[6].pub = <<42>> /\ log[6].commit
       /\ last_wp = 42 /\ last_state = RED

\* C3: every frame publishes exactly one waypoint index, the committed one:
\* the newly committed one on a frame that commits, the one committed before
\* on every other frame.
C3_OnePublishPerFrame ==
    /\ \A i \in 1..Len(log) : Len(log[i].pub) = 1
    /\ log # <<>> => LastFrame.pub = <<last_wp>>

\* C4: a step that changes the committed pair (last_state, last_wp) starts
\* with state_count at the threshold or above, and the state it observes is
\* the state observed by each of the THRESHOLD frames before it.
C4_CommitNeedsThreshold ==
    [][ (last_state' # last_state \/ last_wp' # last_wp)
        => /\ state_count >= STATE_COUNT_THRESHOLD
           /\ Len(log) >= STATE_COUNT_THRESHOLD
           /\ \A k \in 0..(STATE_COUNT_THRESHOLD - 1) :
                 log[Len(log) - k].state = log'[Len(log')].state ]_vars

\* a commit has changed the committed pair
C4_Witness ==
    /\ log # <<>>
    /\ LastFrame.commit
    /\ last_state = RED
    /\ last_wp = 42

\* C5: a committed waypoint other than -1 goes with the committed state RED,
\* and a frame that commits a state other than RED publishes -1 whatever
\* waypoint it observed.
C5_StopOnlyOnRed ==
    /\ last_wp # NO_WP => last_state = RED
    /\ \A i \in 1..Len(log) :
          (log[i].commit /\ log[i].state # RED) => log[i].pub = <<NO_WP>>
    /\ (log # <<>> /\ LastFrame.commit /\ LastFrame.state # RED) => last_wp = NO_WP

\* a state other than RED was committed on a frame that observed waypoint 42
C5_Witness ==
    /\ log # <<>>
    /\ LastFrame.commit
    /\ LastFrame.state = GREEN
    /\ LastFrame.light_wp = 42
    /\ last_state = GREEN

----------------------------------------------------------------------------
(* Claims about the selector, under SelectSpec *)

Squared(n) == n * n

\* the candidate test as the design states it: the distance in the open
\* interval (MIN, MAX) and abs(yaw - bearing) below pi / 9
Candidate(p, l) ==
    /\ dist2(p.position, l.position) < Squared(MAX_LIGHTS_DISTANCE)
    /\ dist2(p.position, l.position) > Squared(MIN_LIGHTS_DISTANCE)
    /\ abs(yaw_of(p.orientation)
           - atan2(l.position.y - p.position.y, l.position.x - p.position.x)) * 9 < PI

\* the angle between the vehicle's heading and the bearing of the light,
\* taken the short way round
Turn(p, l) ==
    LET a == abs(yaw_of(p.orientation)
                 - atan2(l.position.y - p.position.y, l.position.x - p.position.x))
    IN IF a > PI THEN 2 * PI - a ELSE a

Candidates(p, ls) ==
    IF ls = AbsentLights THEN {} ELSE {i \in 1..Len(ls) : Candidate(p, ls[i])}

\* the candidates at the least distance over all candidates
Closest(p, ls) ==
    {i \in Candidates(p, ls) :
        \A j \in Candidates(p, ls) :
            dist2(p.position, ls[i].position) <= dist2(p.position, ls[j].position)}

Min(S) == CHOOSE m \in S : \A n \in S : m <= n
Max(S) == CHOOSE m \in S : \A n \in S : m >= n

\* C6: the light get_closest_light returns is nearer than MAX and farther
\* than MIN and its bearing is within pi/9 of the yaw; when no light of the
\* list meets both constraints, or there is no pose, it returns None.
C6_SelectorBounds ==
    pc = "selected" =>
      /\ loc.light # None =>
            /\ loc.pose # None
            /\ dist2(loc.pose.position, loc.light.position) < Squared(MAX_LIGHTS_DISTANCE)
            /\ dist2(loc.pose.position, loc.light.position) > Squared(MIN_LIGHTS_DISTANCE)
            /\ Turn(loc.pose, loc.light) * 9 < PI
            /\ Candidate(loc.pose, loc.light)
      /\ (loc.pose = None \/ Candidates(loc.pose, loc.lights) = {}) => loc.light = None

\* a light was returned from a list that also holds a nearer light that is
\* not a candidate
C6_Witness ==
    /\ pc = "selected"
    /\ loc.light # None
    /\ \E i \in 1..Len(loc.lights) :
          /\ ~Candidate(loc.pose, loc.lights[i])
          /\ dist2(loc.pose.position, loc.lights[i].position)
               < dist2(loc.pose.position, loc.light.position)

\* C7: when the list holds a candidate, get_closest_light returns a candidate
\* whose distance is the least over the candidates of the list, wherever in
\* the list they stand.
C7_ClosestCandidate ==
    (pc = "selected" /\ loc.pose # None /\ Candidates(loc.pose, loc.lights) # {}) =>
      /\ loc.light # None
      /\ \E i \in Closest(loc.pose, loc.lights) : loc.light = loc.lights[i]

\* the closest candidate was returned although a farther candidate stands
\* before it in the list and another after it
C7_Witness ==
    /\ pc = "selected"
    /\ loc.light # None
    /\ \E i, j, k \in 1..Len(loc.lights) :
          /\ i < j /\ j < k
          /\ loc.light = loc.lights[j]
          /\ Candidate(loc.pose, loc.lights[i]) /\ Candidate(loc.pose, loc.lights[k])
          /\ dist2(loc.pose.position, loc.lights[i].position)
               > dist2(loc.pose.position, loc.light.position)
          /\ dist2(loc.pose.position, loc.lights[k].position)
               > dist2(loc.pose.position, loc.light.position)

\* C8 as stated: of the candidates at the least distance, get_closest_light
\* returns the one that comes first in the list.
C8_FirstTieWins ==
    (pc = "selected" /\ loc.pose # None /\ Candidates(loc.pose, loc.lights) # {}) =>
      loc.light = loc.lights[Min(Closest(loc.pose, loc.lights))]

\* C8 as amended: of the candidates at the least distance, get_closest_light
\* returns the one that comes last in the list.
C8_LastTieWins ==
    (pc = "selected" /\ loc.pose # None /\ Candidates(loc.pose, loc.lights) # {}) =>
      loc.light = loc.lights[Max(Closest(loc.pose, loc.lights))]

\* two different candidates stand at the least distance and the later one
\* was returned
C8_Witness ==
    /\ pc = "selected"
    /\ loc.pose # None
    /\ \E i, j \in Closest(loc.pose, loc.lights) :
          /\ i < j
          /\ loc.lights[i] # loc.lights[j]
          /\ loc.light = loc.lights[j]

----------------------------------------------------------------------------
(* Claims about the whole node, under Spec *)

\* C2: in the end-to-end scenario three frames classified RED publish
\* -1, -1, 42 and a fourth publishes 42 again.
C2_EndToEnd ==
    (e2e_run /\ pc = "idle") =>
      /\ Len(log) = 3 => published = <<NO_WP, NO_WP, 42>>
      /\ Len(log) = 4 => published = <<NO_WP, NO_WP, 42, 42>>

\* C9: a light closer than MIN_LIGHTS_DISTANCE is never the light
\* get_closest_light returns, and a frame that sees only such lights
\* publishes -1 and nothing else.
C9_NearLightIgnored ==
    /\ pc = "selected" =>
          \/ loc.light = None
          \/ dist2(loc.pose.position, loc.light.position) > Squared(MIN_LIGHTS_DISTANCE)
    /\ (pc = "selected" /\ NearOnly(loc.pose, loc.lights)) => loc.light = None
    /\ (pc = "idle" /\ near_only) => LastFrame.pub = <<NO_WP>> /\ last_wp = NO_WP

\* a second frame in a row has seen only the red light at (10, 0), from the
\* origin
C9_Witness ==
    /\ pc = "idle"
    /\ near_only
    /\ Len(log) >= 2
    /\ pose = Origin
    /\ lights = <<Light(10, 0, RED)>>

\* the indices, counted from 0, of the waypoints of the route nearest to pos
Nearest(route, pos) ==
    {i - 1 : i \in {k \in 1..Len(route) :
                      \A j \in 1..Len(route) : dist2(pos, route[k]) <= dist2(pos, route[j])}}

\* C10: the index get_closest_waypoint returns for a pose, a route being
\* cached, is the index of a waypoint of the route nearest to the pose.
C10_ClosestWaypoint ==
    [][ (pc = "selected" /\ pc' = "idle" /\ pose # None /\ waypoints # None)
        => /\ Len(car_position') = 1
           /\ car_position'[1] \in Nearest(waypoints.waypoints, pose.position) ]_vars

\* C11: a waypoint lookup made while no route is cached returns no waypoint
\* index, and the frame that makes it observes (UNKNOWN, -1) and is finished.
C11_NoWaypointsLoaded ==
    [][ (pc = "selected" /\ pc' = "idle" /\ pose # None /\ waypoints = None)
        => /\ car_position' = <<>>
           /\ log'[Len(log')].state = UNKNOWN
           /\ log'[Len(log')].light_wp = NO_WP ]_vars

\* C16: once a route is cached, a step of image_cb, pose_cb or traffic_cb
\* leaves self.waypoints as it is; only waypoints_cb replaces it, by a route.
C16_RouteReadOnly ==
    [][ waypoints # None
        => /\ waypoints' # None
           /\ (pc' # pc \/ pose' # pose \/ lights' # lights) => waypoints' = waypoints ]_vars

\* C17: the pose process_traffic_lights reads in a pass of image_cb is the
\* pose get_closest_light was handed in that pass.
C17_OnePosePerPass ==
    [][ (pc = "selected" /\ pc' = "idle") => pose = loc.pose ]_vars

----------------------------------------------------------------------------
(* More claims about the debounce latch, under LatchSpec *)

\* the number of frames in a row, up to the last one, that observed the
\* state now recorded in self.state
RECURSIVE RunUpTo(_)
RunUpTo(n) == IF n = 0 \/ log[n].state # state THEN 0 ELSE 1 + RunUpTo(n - 1)

Run == RunUpTo(Len(log))

\* C14 as stated: state_count stays at or near STATE_COUNT_THRESHOLD however
\* many frames feed the committed state again, and each of those frames
\* publishes the committed waypoint.
C14_CountClamped ==
    /\ state_count <= STATE_COUNT_THRESHOLD + 1
    /\ (log # <<>> /\ LastFrame.commit) => LastFrame.pub = <<last_wp>>

\* C14 as amended: state_count is not clamped, it is the number of frames in
\* a row that observed the current state; every frame after the first
\* THRESHOLD of them commits that state and publishes the committed waypoint.
C14_CountGrows ==
    /\ state_count = Run
    /\ Run > STATE_COUNT_THRESHOLD =>
          /\ LastFrame.commit
          /\ last_state = state
          /\ last_wp = stop_wp(LastFrame.light_wp, state)
          /\ LastFrame.pub = <<last_wp>>

\* the committed state RED was fed again and the count has passed the
\* threshold by two
C14_Witness ==
    /\ state_count >= STATE_COUNT_THRESHOLD + 2
    /\ LastFrame.commit
    /\ last_state = RED
    /\ LastFrame.pub = <<42>>

\* C15 as stated: a step whose observed state differs from the one observed
\* before ends with state_count 0 and self.state the new state; a step whose
\* observed state is the same ends with the count one higher.
C15_ResetToZero ==
    [][ Len(log') = Len(log) + 1 =>
          IF log'[Len(log')].state # state
          THEN state_count' = 0 /\ state' = log'[Len(log')].state
          ELSE state_count' = state_count + 1 /\ state' = state ]_vars

\* C15 as amended: a step whose observed state differs ends with state_count
\* 1 (line 124 sets it to 0 and line 133 adds one) and self.state the new
\* state; a step whose observed state is the same ends with the count one
\* higher.
C15_ResetToOne ==
    [][ Len(log') = Len(log) + 1 =>
          IF log'[Len(log')].state # state
          THEN state_count' = 1 /\ state' = log'[Len(log')].state
          ELSE state_count' = state_count + 1 /\ state' = state ]_vars

\* a frame observed GREEN after two frames that observed RED
C15_Witness ==
    /\ Len(log) >= 3
    /\ log[Len(log) - 2].state = RED
    /\ log[Len(log) - 1].state = RED
    /\ LastFrame.state = GREEN
    /\ state = GREEN
    /\ state_count = 1

----------------------------------------------------------------------------
(* More claims about the selector, under SelectSpec *)

\* C12: get_closest_light returns None when the pose is None, when the light
\* list is None and when it is empty, whatever the other argument is, and the
\* call returns.
C12_NothingToSelect ==
    (/\ pc = "selected"
     /\ (loc.pose = None \/ loc.lights = AbsentLights \/ loc.lights = <<>>))
    => loc.light = None

\* the call has returned None for a missing pose and a list holding a light
\* that is a candidate from the origin
C12_Witness ==
    /\ pc = "selected"
    /\ loc.pose = None
    /\ Candidates(PoseMsg(0, 0, Q0), loc.lights) # {}
    /\ loc.light = None

\* the call has returned None for a pose and a light list that is None
C12_WitnessAbsentLights ==
    /\ pc = "selected"
    /\ loc.pose # None
    /\ loc.lights = AbsentLights
    /\ loc.light = None

----------------------------------------------------------------------------
(* More claims about the whole node, under Spec *)

\* C13: a run fed the same pose, route, light position and camera events and
\* the same classifier answers, with other ground-truth states for the
\* lights, publishes the same sequence and has the same latch fields.
C13_CaptureDoesNotDecide ==
    \A g \in Regts :
        /\ twin[g].published = published
        /\ twin[g].state = state
        /\ twin[g].last_state = last_state
        /\ twin[g].last_wp = last_wp
        /\ twin[g].state_count = state_count

\* two frames are done, save_image has recorded a red light in the first run
\* and something else in a second run
C13_Witness ==
    /\ pc = "idle"
    /\ Len(log) >= 2
    /\ gt_builer.red_count >= 1
    /\ \E g \in Regts : twin[g].gt.red_count = 0 /\ twin[g].gt.green_count >= 1

====
